---- MODULE Spec2Model ----
(***************************************************************************)
(* A model of the live duplex audio session of LiveMode                    *)
(* (src/unnamed/part_000): session start and teardown, the capture         *)
(* callback with its deferred session handle, and the playback scheduler   *)
(* of onmessage with its interruption branch.                              *)
(*                                                                         *)
(* The model follows one startSession call and the session it opens.       *)
(* Time is counted in whole ticks of the output context's clock.  A ref    *)
(* holds 0 for null and 1 for the object the session made.  A playback     *)
(* unit is named by the inbound chunk it was decoded from, and chunks are  *)
(* numbered in arrival order.                                              *)
(***************************************************************************)
EXTENDS Integers, Sequences, FiniteSets, TLC

\* ------------------------------------------------------------------ bounds
MaxChunks == 2      \* inbound messages that carry audio
MaxSignals == 1     \* inbound messages that carry only the interrupted flag
MaxTime == 2        \* ticks the output clock may advance
MaxFrames == 3      \* microphone frames captured

MaxText == 2        \* characters of the text to speak
MaxRequests == 2    \* handleGenerate calls that get past the blank-text check
MaxCalls == 3       \* handleGenerate calls
MaxSamples == 46    \* samples per channel of the buffer given to bufferToWav
MaxChannels == 2    \* channels of the buffer given to bufferToWav

Durations == {1, 2} \* durations of the decoded buffers, in ticks
ChunkIds == 1..MaxChunks

\* two of the languages of SALanguage: the one whose pack is installed from
\* the start, and one whose pack is not
Langs == {"English", "isiZulu"}
Chars == {" ", "a"}
Texts == UNION {[1..n -> Chars] : n \in 0..MaxText}
RequestIds == 1..MaxRequests
NoError == "null"

\* A sample is a multiple of 1/SampleDen, held as its numerator.  The buffers
\* given to bufferToWav run through SampleNums: sample p of channel i of the
\* buffer with seed k is the entry k + p + 3i of the cycle
SampleDen == 4
SampleNums == <<-6, -4, -3, -2, -1, 0, 1, 2, 4, 5>>
SampleRates == {8000, 24000}

VARIABLES
  \* React state (part_000:8-10)
  connected, speaking, aiSpeaking,
  \* refs (part_000:13-22); 0 = null
  inputAudioContextRef, outputAudioContextRef, sessionRef, streamRef,
  processorRef, sourceRef,
  nextStartTimeRef,
  sourcesRef,             \* set of playback units (chunk ids)
  \* the running startSession call and its closure (part_000:70-201)
  pc,                     \* "idle", "awaitMedia", "awaitConnect", "done", "failed"
  resolved,               \* sessionPromise has been resolved
  thenQueue,              \* callbacks registered on the pending sessionPromise
  \* the environment
  conn,                   \* "none", "connecting", "refused", "open", "errored", "closed"
  clock,                  \* currentTime of the output context
  chunks,                 \* every inbound audio chunk and the unit made from it
  inputCtxState,          \* "none", "running", "closed"
  outputCtxState,         \* "none", "running", "closed"
  trackState,             \* "none", "live", "ended"
  \* history
  nChunks, nSignals, nFrames,
  sent,                   \* frames forwarded to the session, in order
  deferred,               \* frames that waited on sessionPromise and were sent when it resolved
  teardowns,              \* runs of stopAll
  gapless,                \* no interruption has run and line 139 never moved the cursor
  played,                 \* while gapless: the durations of the units started, summed
  twice,                  \* stop() or close() was called on an object already stopped or closed
  \* TTSMode React state (TTSMode.tsx:14-32)
  text,                   \* a sequence of characters
  selectedLang,
  isOfflineMode,
  offlinePacks,           \* language -> downloaded
  isFloating,
  loading,
  error,                  \* NoError for null
  audioUrl,               \* 0 = null, r = the object URL made for request r
  isPlaying,
  \* the TTSMode environment
  apiKey,                 \* process.env.API_KEY: "unread", "set", "missing"
  req,                    \* every handleGenerate call: "none", "remote", "decode",
                          \* "speaking", "cancelled", "settled"
  \* TTSMode history
  calls,                  \* handleGenerate calls so far
  stopped,                \* stopPlayback has run since the last request was started
  \* one bufferToWav call (TTSMode.tsx:510-560)
  abuffer,                \* the input: length, numberOfChannels, and the samples
  sampleRate,
  view,                   \* the bytes of the output ArrayBuffer, view[i + 1] at offset i
  pos,
  offset,
  wavPc                   \* "idle", "header", "data", "returned"

progVars == <<connected, speaking, aiSpeaking, inputAudioContextRef,
              outputAudioContextRef, sessionRef, streamRef, processorRef,
              sourceRef, nextStartTimeRef, sourcesRef>>
callVars == <<pc, resolved, thenQueue>>
resVars == <<inputCtxState, outputCtxState, trackState>>
envVars == <<conn, clock, chunks, resVars>>
histVars == <<nChunks, nSignals, nFrames, sent, deferred, teardowns, gapless,
              played, twice>>
liveVars == <<progVars, callVars, envVars, histVars>>
ttsVars == <<text, selectedLang, isOfflineMode, offlinePacks, isFloating,
             loading, error, audioUrl, isPlaying, apiKey, req, calls, stopped>>
wavVars == <<abuffer, sampleRate, view, pos, offset, wavPc>>
\* what the LiveMode handlers leave alone
otherVars == <<ttsVars, wavVars>>
vars == <<liveVars, otherVars>>

Max(a, b) == IF a >= b THEN a ELSE b

\* st: "none" (not arrived), "ignored" (no output context), "decoding",
\* "failed", "started" (scheduled or playing), "stopped" (stop() was called,
\* 'ended' not yet dispatched), "done" ('ended' listener has run)
\* dur and intr are the payload of a chunk being decoded, and stale tells that
\* an interruption has run since it arrived; of a started unit, start is the
\* time given to source.start, before is the value of played when it was
\* started, and playEnd is the clock value at which it has played to its end
NoChunk == [st |-> "none", dur |-> 0, intr |-> FALSE, stale |-> FALSE,
            start |-> 0, before |-> 0, playEnd |-> 0]

LiveInit ==
  /\ connected = FALSE /\ speaking = FALSE /\ aiSpeaking = FALSE
  /\ inputAudioContextRef = 0 /\ outputAudioContextRef = 0
  /\ sessionRef = 0 /\ streamRef = 0 /\ processorRef = 0 /\ sourceRef = 0
  /\ nextStartTimeRef = 0 /\ sourcesRef = {}
  /\ pc = "idle" /\ resolved = FALSE /\ thenQueue = <<>>
  /\ conn = "none" /\ clock = 0
  /\ chunks = [i \in ChunkIds |-> NoChunk]
  /\ inputCtxState = "none" /\ outputCtxState = "none" /\ trackState = "none"
  /\ nChunks = 0 /\ nSignals = 0 /\ nFrames = 0
  /\ sent = <<>> /\ deferred = 0 /\ teardowns = 0 /\ gapless = TRUE /\ played = 0 /\ twice = FALSE

\* TTSMode.tsx:14-32, part_001:145-152
TtsInit ==
  /\ text = <<>>
  /\ selectedLang = "English"
  /\ isOfflineMode = FALSE
  /\ offlinePacks = [l \in Langs |-> l = "English"]
  /\ isFloating = FALSE
  /\ loading = FALSE /\ error = NoError /\ audioUrl = 0 /\ isPlaying = FALSE
  /\ apiKey = "unread"
  /\ req = [r \in RequestIds |-> "none"]
  /\ calls = 0 /\ stopped = FALSE

\* no bufferToWav call is running
WavIdle ==
  /\ abuffer = [length |-> 0, numberOfChannels |-> 1, seed |-> 0]
  /\ sampleRate = 24000
  /\ view = <<>>
  /\ pos = 0 /\ offset = 0
  /\ wavPc = "idle"

Init == LiveInit /\ TtsInit /\ WavIdle

\* --------------------------------------------------------------- stopAll
\* part_000:46, 165-167 - stop() is called on every unit of the set
StopSources(set, cs) ==
  [i \in ChunkIds |-> IF i \in set THEN [NoChunk EXCEPT !.st = "stopped"]
                                    ELSE cs[i]]

\* a unit of the set has been stopped before
StoppedBefore(set, cs) == \E i \in set : cs[i].st = "stopped"

\* a stopAll that leaves the stopped units in the set
SourcesKeptOnStopAll(set) == set

\* part_000:47 - sourcesRef.current.clear()
SourcesAfterStopAll(set) == {}

\* part_000:30 - streamRef.current = null
StreamAfterStopAll(ref) == 0

\* part_000:62 - sessionRef.current = null
SessionAfterStopAll(ref) == 0

\* part_000:26-68
stopAll ==
  /\ streamRef' = StreamAfterStopAll(streamRef)
  /\ trackState' = IF streamRef # 0 THEN "ended" ELSE trackState
  /\ processorRef' = 0
  /\ sourceRef' = 0
  /\ inputAudioContextRef' = 0
  /\ inputCtxState' = IF inputAudioContextRef # 0 THEN "closed" ELSE inputCtxState
  /\ chunks' = StopSources(sourcesRef, chunks)
  /\ sourcesRef' = SourcesAfterStopAll(sourcesRef)
  /\ outputAudioContextRef' = 0
  /\ outputCtxState' = IF outputAudioContextRef # 0 THEN "closed" ELSE outputCtxState
  /\ sessionRef' = SessionAfterStopAll(sessionRef)
  /\ connected' = FALSE /\ speaking' = FALSE /\ aiSpeaking' = FALSE
  /\ twice' = \/ twice
              \/ streamRef # 0 /\ trackState = "ended"
              \/ inputAudioContextRef # 0 /\ inputCtxState = "closed"
              \/ outputAudioContextRef # 0 /\ outputCtxState = "closed"
              \/ StoppedBefore(sourcesRef, chunks)
  /\ UNCHANGED <<nextStartTimeRef, callVars, clock>>
  /\ teardowns' = teardowns + 1
  /\ UNCHANGED <<nChunks, nSignals, nFrames, sent, deferred, gapless, played>>
  /\ UNCHANGED otherVars

\* part_000:255-257 - the End Session button, shown while connected
ClickStop ==
  /\ connected
  /\ stopAll
  /\ UNCHANGED conn

\* part_000:173-176 - the connection is closed, after an error or without one
onclose ==
  /\ conn \in {"open", "errored"}
  /\ conn' = "closed"
  /\ stopAll

\* part_000:177-181 - the open connection reports an error
onerror ==
  /\ conn = "open"
  /\ conn' = "errored"
  /\ stopAll

\* ---------------------------------------------------------- startSession
\* part_000:70-86 - up to the await of getUserMedia; the Start button is shown
\* while not connected (part_000:241-243)
startSession ==
  /\ ~connected
  /\ pc = "idle"
  /\ connected' = TRUE
  /\ inputAudioContextRef' = 1 /\ inputCtxState' = "running"
  /\ outputAudioContextRef' = 1 /\ outputCtxState' = "running"
  /\ pc' = "awaitMedia"
  /\ UNCHANGED <<speaking, aiSpeaking, sessionRef, streamRef, processorRef,
                 sourceRef, nextStartTimeRef, sourcesRef, resolved, thenQueue,
                 conn, clock, chunks, trackState, histVars>>
  /\ UNCHANGED otherVars

\* part_000:196-200 - the catch block of startSession
StartFailed ==
  /\ connected' = FALSE
  /\ pc' = "failed"

\* part_000:86-95 - getUserMedia resolves; connect is called
MediaGranted ==
  /\ pc = "awaitMedia"
  /\ streamRef' = 1 /\ trackState' = "live"
  /\ conn' = "connecting"
  /\ pc' = "awaitConnect"
  /\ UNCHANGED <<connected, speaking, aiSpeaking, inputAudioContextRef,
                 outputAudioContextRef, sessionRef, processorRef, sourceRef,
                 nextStartTimeRef, sourcesRef, resolved, thenQueue, clock,
                 chunks, inputCtxState, outputCtxState, histVars>>
  /\ UNCHANGED otherVars

\* part_000:86, 196-200 - getUserMedia rejects (permission denied)
MediaDenied ==
  /\ pc = "awaitMedia"
  /\ StartFailed
  /\ UNCHANGED <<speaking, aiSpeaking, inputAudioContextRef,
                 outputAudioContextRef, sessionRef, streamRef, processorRef,
                 sourceRef, nextStartTimeRef, sourcesRef, resolved, thenQueue,
                 envVars, histVars>>
  /\ UNCHANGED otherVars

\* part_000:98-128 - the capture chain is attached unless the input context
\* has been released meanwhile
onopen ==
  /\ conn = "connecting"
  /\ conn' = "open"
  /\ IF inputAudioContextRef = 0
       THEN UNCHANGED <<sourceRef, processorRef>>
       ELSE sourceRef' = 1 /\ processorRef' = 1
  /\ UNCHANGED <<connected, speaking, aiSpeaking, inputAudioContextRef,
                 outputAudioContextRef, sessionRef, streamRef,
                 nextStartTimeRef, sourcesRef, callVars, clock, chunks,
                 resVars, histVars>>
  /\ UNCHANGED otherVars

\* pending callbacks run last-registered first
ThenOrderReversed(queue) == [i \in 1..Len(queue) |-> queue[Len(queue) + 1 - i]]

\* part_000:121-123 - the callbacks registered on sessionPromise run in the
\* order they were registered, once the promise is resolved
ThenOrder(queue) == queue

\* part_000:192-194 - connect resolves: the ref is set, sessionPromise is
\* resolved and its pending callbacks send their chunks
ConnectResolved ==
  /\ pc = "awaitConnect"
  /\ conn \in {"open", "errored", "closed"}
  /\ sessionRef' = 1
  /\ resolved' = TRUE
  /\ sent' = sent \o ThenOrder(thenQueue)
  /\ deferred' = Len(thenQueue)
  /\ thenQueue' = <<>>
  /\ pc' = "done"
  /\ UNCHANGED <<connected, speaking, aiSpeaking, inputAudioContextRef,
                 outputAudioContextRef, streamRef, processorRef, sourceRef,
                 nextStartTimeRef, sourcesRef, envVars, nChunks, nSignals,
                 nFrames, teardowns, gapless, played, twice>>
  /\ UNCHANGED otherVars

\* part_000:192, 196-200 - connect rejects
ConnectRejected ==
  /\ pc = "awaitConnect"
  /\ conn = "connecting"
  /\ conn' = "refused"
  /\ StartFailed
  /\ UNCHANGED <<speaking, aiSpeaking, inputAudioContextRef,
                 outputAudioContextRef, sessionRef, streamRef, processorRef,
                 sourceRef, nextStartTimeRef, sourcesRef, resolved, thenQueue,
                 clock, chunks, resVars, histVars>>
  /\ UNCHANGED otherVars

\* ---------------------------------------------------------------- capture
\* part_000:121-123 - sessionPromise.then(send): the chunk is sent at once
\* when the promise is resolved and waits on the promise otherwise
SendNow(isResolved) == isResolved

\* part_000:110-124 - onaudioprocess, for a frame that is loud or not; the
\* frames are numbered in capture order
onaudioprocess(loud) ==
  /\ processorRef # 0
  /\ nFrames < MaxFrames
  /\ nFrames' = nFrames + 1
  /\ speaking' = loud
  /\ IF SendNow(resolved)
       THEN sent' = Append(sent, nFrames + 1) /\ UNCHANGED thenQueue
       ELSE thenQueue' = Append(thenQueue, nFrames + 1) /\ UNCHANGED sent
  /\ UNCHANGED <<connected, aiSpeaking, inputAudioContextRef,
                 outputAudioContextRef, sessionRef, streamRef, processorRef,
                 sourceRef, nextStartTimeRef, sourcesRef, pc, resolved,
                 envVars, nChunks, nSignals, deferred, teardowns, gapless,
                 played, twice>>
  /\ UNCHANGED otherVars

\* --------------------------------------------------------------- playback
\* part_000:139 - Math.max(nextStartTimeRef.current, outputCtx.currentTime)
ResyncCursor(cursor, now) == Max(cursor, now)

\* part_000:157 - source.start(nextStartTimeRef.current)
StartTime(cursor) == cursor

\* a cursor that leaves one tick of silence after each unit
AdvanceCursorWithGap(cursor, dur) == cursor + dur + 1

\* part_000:158 - nextStartTimeRef.current += audioBuffer.duration
AdvanceCursor(cursor, dur) == cursor + dur

\* part_000:159 - sourcesRef.current.add(source)
AddSource(set, c) == set \cup {c}

\* part_000:168 - sourcesRef.current.clear()
SourcesAfterInterrupt(set) == {}

\* an interruption that keeps the stale timeline
CursorKeptOnInterrupt(cursor) == cursor

\* part_000:169 - nextStartTimeRef.current = 0
CursorAfterInterrupt(cursor) == 0

\* the chunks whose decode is in flight when an interruption runs
MarkStale(cs) ==
  [i \in ChunkIds |-> IF cs[i].st = "decoding"
                        THEN [cs[i] EXCEPT !.stale = TRUE] ELSE cs[i]]

\* part_000:129-146 - onmessage for a message with audio, up to the await of
\* decodeAudioData; dur is the duration of the buffer the payload decodes to,
\* intr tells whether the message also carries the interrupted flag
onmessageAudio(dur, intr) ==
  /\ conn = "open"
  /\ nChunks < MaxChunks
  /\ nChunks' = nChunks + 1
  /\ IF outputAudioContextRef = 0
       THEN /\ chunks' = [chunks EXCEPT ![nChunks + 1] =
                            [NoChunk EXCEPT !.st = "ignored"]]
            /\ UNCHANGED <<aiSpeaking, nextStartTimeRef, gapless, played>>
       ELSE /\ aiSpeaking' = TRUE
            /\ nextStartTimeRef' = ResyncCursor(nextStartTimeRef, clock)
            /\ gapless' = (gapless /\ clock <= nextStartTimeRef)
            /\ played' = IF gapless /\ clock <= nextStartTimeRef
                           THEN played ELSE 0
            /\ chunks' = [chunks EXCEPT ![nChunks + 1] =
                 [NoChunk EXCEPT !.st = "decoding", !.dur = dur,
                                 !.intr = intr]]
  /\ UNCHANGED <<connected, speaking, inputAudioContextRef,
                 outputAudioContextRef, sessionRef, streamRef, processorRef,
                 sourceRef, sourcesRef, callVars, conn, clock, resVars,
                 nSignals, nFrames, sent, deferred, teardowns, twice>>
  /\ UNCHANGED otherVars

\* utils/audioUtils decodeAudioData: the decode of a chunk may suspend, and
\* the decodes in flight complete in any order
DecodeCompletes(c) == chunks[c].st = "decoding"

\* part_000:148-171 - onmessage resumed after the await, for chunk c
onmessageResume(c) ==
  /\ DecodeCompletes(c)
  /\ LET ch == chunks[c]
         at == StartTime(nextStartTimeRef)
         started == [NoChunk EXCEPT !.st = "started", !.start = at,
                                    !.before = played,
                                    !.playEnd = Max(at, clock) + ch.dur]
         cursor == AdvanceCursor(nextStartTimeRef, ch.dur)
         set == AddSource(sourcesRef, c)
         cs == [chunks EXCEPT ![c] = started]
     IN IF ch.intr
          THEN /\ chunks' = MarkStale(StopSources(set, cs))
               /\ sourcesRef' = SourcesAfterInterrupt(set)
               /\ nextStartTimeRef' = CursorAfterInterrupt(cursor)
               /\ aiSpeaking' = FALSE
               /\ gapless' = FALSE
               /\ played' = 0
               /\ twice' = (twice \/ StoppedBefore(set, cs))
          ELSE /\ chunks' = cs
               /\ sourcesRef' = set
               /\ nextStartTimeRef' = cursor
               /\ played' = IF gapless THEN played + ch.dur ELSE 0
               /\ UNCHANGED <<aiSpeaking, gapless, twice>>
  /\ UNCHANGED <<connected, speaking, inputAudioContextRef,
                 outputAudioContextRef, sessionRef, streamRef, processorRef,
                 sourceRef, callVars, conn, clock, resVars, nChunks, nSignals,
                 nFrames, sent, deferred, teardowns>>
  /\ UNCHANGED otherVars

\* utils/audioUtils decodeAudioData rejects the payload of chunk c (malformed
\* payload)
DecodeRejects(c) == chunks[c].st = "decoding"

\* an onmessage that advances the cursor before the await, so that a failed
\* decode leaves the advance behind
onmessageDecodeFailsAdvanced(c) ==
  /\ DecodeRejects(c)
  /\ chunks' = [chunks EXCEPT ![c] = [NoChunk EXCEPT !.st = "failed"]]
  /\ nextStartTimeRef' = nextStartTimeRef + chunks[c].dur
  /\ UNCHANGED <<connected, speaking, aiSpeaking, inputAudioContextRef,
                 outputAudioContextRef, sessionRef, streamRef, processorRef,
                 sourceRef, sourcesRef, callVars, conn, clock, resVars,
                 histVars>>
  /\ UNCHANGED otherVars

\* part_000:141-172 - the await of decodeAudioData throws: onmessage has no
\* try/catch, so nothing after the await is run
onmessageDecodeFails(c) ==
  /\ DecodeRejects(c)
  /\ chunks' = [chunks EXCEPT ![c] = [NoChunk EXCEPT !.st = "failed"]]
  /\ UNCHANGED <<progVars, callVars, conn, clock, resVars, histVars>>
  /\ UNCHANGED otherVars

\* part_000:129-135, 162-171 - onmessage for a message without audio that
\* carries the interrupted flag: no await is reached
onmessageInterrupted ==
  /\ conn = "open"
  /\ nSignals < MaxSignals
  /\ nSignals' = nSignals + 1
  /\ IF outputAudioContextRef = 0
       THEN UNCHANGED <<chunks, sourcesRef, nextStartTimeRef, aiSpeaking,
                        gapless, played, twice>>
       ELSE /\ chunks' = MarkStale(StopSources(sourcesRef, chunks))
            /\ sourcesRef' = SourcesAfterInterrupt(sourcesRef)
            /\ nextStartTimeRef' = CursorAfterInterrupt(nextStartTimeRef)
            /\ aiSpeaking' = FALSE
            /\ gapless' = FALSE
            /\ played' = 0
            /\ twice' = (twice \/ StoppedBefore(sourcesRef, chunks))
  /\ UNCHANGED <<connected, speaking, inputAudioContextRef,
                 outputAudioContextRef, sessionRef, streamRef, processorRef,
                 sourceRef, callVars, conn, clock, resVars, nChunks, nFrames,
                 sent, deferred, teardowns>>
  /\ UNCHANGED otherVars

\* The 'ended' event of unit c is dispatched once, after stop() was called on
\* it or after its buffer has played to the end on the running context
EndedFires(c) ==
  \/ chunks[c].st = "stopped"
  \/ /\ chunks[c].st = "started"
     /\ outputCtxState = "running"
     /\ clock >= chunks[c].playEnd

\* part_000:152-155 - the 'ended' listener of unit c
ended(c) ==
  /\ EndedFires(c)
  /\ chunks' = [chunks EXCEPT ![c] = [NoChunk EXCEPT !.st = "done"]]
  /\ sourcesRef' = sourcesRef \ {c}
  /\ aiSpeaking' = IF sourcesRef \ {c} = {} THEN FALSE ELSE aiSpeaking
  /\ UNCHANGED <<connected, speaking, inputAudioContextRef,
                 outputAudioContextRef, sessionRef, streamRef, processorRef,
                 sourceRef, nextStartTimeRef, callVars, conn, clock, resVars,
                 histVars>>
  /\ UNCHANGED otherVars

\* outputCtx.currentTime advances while the context runs
Tick ==
  /\ outputCtxState = "running"
  /\ clock < MaxTime
  /\ clock' = clock + 1
  /\ UNCHANGED <<progVars, callVars, conn, chunks, resVars, histVars>>
  /\ UNCHANGED otherVars

\* ------------------------------------------------------------- TTSMode
\* String.prototype.trim: the leading and the trailing whitespace is removed
RECURSIVE TrimStart(_)
TrimStart(t) ==
  IF t # <<>> /\ Head(t) = " " THEN TrimStart(Tail(t)) ELSE t

RECURSIVE TrimEnd(_)
TrimEnd(t) ==
  IF t # <<>> /\ t[Len(t)] = " " THEN TrimEnd(SubSeq(t, 1, Len(t) - 1)) ELSE t

Trim(t) == TrimEnd(TrimStart(t))

\* a check that lets whitespace through
BlankUntrimmed(t) == t = <<>>

\* TTSMode.tsx:90 - !inputText.trim()
Blank(t) == Trim(t) = <<>>

\* a check that takes every pack for installed
PackAlwaysThere(packs, lang) == FALSE

\* TTSMode.tsx:115-116 - pack && !pack.downloaded
PackMissing(packs, lang) == ~packs[lang]

\* TTSMode.tsx:97, 210 - speechSynthesis.cancel(): the utterance spoken or
\* queued is removed; its 'error' or 'end' event is dispatched later
SpeechCancel(rq) ==
  [r \in RequestIds |-> IF rq[r] = "speaking" THEN "cancelled" ELSE rq[r]]

\* TTSMode.tsx:205-212 - stopPlayback does not write loading
LoadingAfterStop(l) == l

\* TTSMode.tsx:433-443, 233-249 - the button that calls handleGenerate is
\* shown while not playing; the main one is disabled while loading or when
\* the text is empty, the one of the mini player when the text is empty
GenerateEnabled ==
  /\ ~isPlaying
  /\ text # <<>>
  /\ isFloating \/ ~loading

\* TTSMode.tsx:106-111 - the catch and finally blocks of handleGenerate
GenerateFailed(message) ==
  /\ error' = message
  /\ isPlaying' = FALSE
  /\ loading' = FALSE

\* TTSMode.tsx:149 - process.env.API_KEY: the build has a key or has none,
\* which shows when the key is first read
ReadApiKey(key) == IF key = "unread" THEN {"set", "missing"} ELSE {key}

\* TTSMode.tsx:89-118, 148-155 - handleGenerate up to its first await; a
\* throw before it is caught in the same turn
handleGenerate ==
  /\ GenerateEnabled
  /\ calls < MaxCalls
  /\ calls' = calls + 1
  /\ IF Blank(text)
       THEN UNCHANGED <<loading, error, audioUrl, isPlaying, req, stopped,
                        apiKey>>
       ELSE \E r \in RequestIds :
              /\ req[r] = "none"
              /\ \A q \in 1..(r - 1) : req[q] # "none"
              /\ stopped' = FALSE
              /\ audioUrl' = 0
              /\ IF isOfflineMode
                   THEN IF PackMissing(offlinePacks, selectedLang)
                          THEN /\ GenerateFailed("download the language pack")
                               /\ req' = [SpeechCancel(req) EXCEPT ![r] = "settled"]
                               /\ UNCHANGED apiKey
                          ELSE /\ loading' = TRUE /\ error' = NoError
                               /\ isPlaying' = TRUE
                               /\ req' = [SpeechCancel(req) EXCEPT ![r] = "speaking"]
                               /\ UNCHANGED apiKey
                   ELSE \E key \in ReadApiKey(apiKey) :
                          /\ apiKey' = key
                          /\ IF key = "missing"
                               THEN /\ GenerateFailed("API Key missing")
                                    /\ req' = [SpeechCancel(req) EXCEPT ![r] = "settled"]
                               ELSE /\ loading' = TRUE /\ error' = NoError
                                    /\ isPlaying' = TRUE
                                    /\ req' = [SpeechCancel(req) EXCEPT ![r] = "remote"]
  /\ UNCHANGED <<text, selectedLang, isOfflineMode, offlinePacks, isFloating>>
  /\ UNCHANGED <<liveVars, wavVars>>

\* TTSMode.tsx:133-137, 110-111 - the 'end' event of the utterance of request
\* r, spoken to its end or cancelled
utteranceOnend(r) ==
  /\ req[r] \in {"speaking", "cancelled"}
  /\ req' = [req EXCEPT ![r] = "settled"]
  /\ loading' = FALSE
  /\ isPlaying' = FALSE
  /\ UNCHANGED <<text, selectedLang, isOfflineMode, offlinePacks, isFloating,
                 error, audioUrl, apiKey, calls, stopped>>
  /\ UNCHANGED <<liveVars, wavVars>>

\* TTSMode.tsx:139-142, 106-111 - the 'error' event of the utterance of
\* request r, failed or cancelled
utteranceOnerror(r) ==
  /\ req[r] \in {"speaking", "cancelled"}
  /\ req' = [req EXCEPT ![r] = "settled"]
  /\ GenerateFailed("Offline speech synthesis failed")
  /\ UNCHANGED <<text, selectedLang, isOfflineMode, offlinePacks, isFloating,
                 audioUrl, apiKey, calls, stopped>>
  /\ UNCHANGED <<liveVars, wavVars>>

\* TTSMode.tsx:155-186 - generateContent resolves for request r, with audio
\* in the response or without
generateContentResolves(r, hasAudio) ==
  /\ req[r] = "remote"
  /\ IF hasAudio
       THEN /\ req' = [req EXCEPT ![r] = "decode"]
            /\ UNCHANGED <<loading, error, isPlaying>>
       ELSE /\ req' = [req EXCEPT ![r] = "settled"]
            /\ GenerateFailed("No audio data returned")
  /\ UNCHANGED <<text, selectedLang, isOfflineMode, offlinePacks, isFloating,
                 audioUrl, apiKey, calls, stopped>>
  /\ UNCHANGED <<liveVars, wavVars>>

\* TTSMode.tsx:155, 106-111 - generateContent rejects for request r
generateContentRejects(r) ==
  /\ req[r] = "remote"
  /\ req' = [req EXCEPT ![r] = "settled"]
  /\ GenerateFailed("Failed to generate speech")
  /\ UNCHANGED <<text, selectedLang, isOfflineMode, offlinePacks, isFloating,
                 audioUrl, apiKey, calls, stopped>>
  /\ UNCHANGED <<liveVars, wavVars>>

\* utils/audioUtils decodeAudioData settles for the payload of request r
RenderDecodeSettles(r) == req[r] = "decode"

\* TTSMode.tsx:180-183, 106-111 - handleOnlineGenerate resumed after the
\* await of decodeAudioData, which resolved (the buffer is wrapped by
\* bufferToWav and its object URL stored) or rejected
handleOnlineGenerateResume(r, decoded) ==
  /\ RenderDecodeSettles(r)
  /\ req' = [req EXCEPT ![r] = "settled"]
  /\ IF decoded
       THEN /\ audioUrl' = r
            /\ loading' = FALSE
            /\ UNCHANGED <<error, isPlaying>>
       ELSE /\ GenerateFailed("Failed to generate speech")
            /\ UNCHANGED audioUrl
  /\ UNCHANGED <<text, selectedLang, isOfflineMode, offlinePacks, isFloating,
                 apiKey, calls, stopped>>
  /\ UNCHANGED <<liveVars, wavVars>>

\* TTSMode.tsx:205-212 - stopPlayback; its buttons are shown while playing
\* (433-435, 233-240).  The hidden audio element is never played, so that
\* pausing it changes nothing
stopPlayback ==
  /\ isPlaying
  /\ req' = SpeechCancel(req)
  /\ isPlaying' = FALSE
  /\ loading' = LoadingAfterStop(loading)
  /\ stopped' = TRUE
  /\ UNCHANGED <<text, selectedLang, isOfflineMode, offlinePacks, isFloating,
                 error, audioUrl, apiKey, calls>>
  /\ UNCHANGED <<liveVars, wavVars>>

\* TTSMode.tsx:14, 260 - the text area and the clear button
setText(t) ==
  /\ t # text
  /\ text' = t
  /\ UNCHANGED <<selectedLang, isOfflineMode, offlinePacks, isFloating,
                 loading, error, audioUrl, isPlaying, apiKey, req, calls,
                 stopped>>
  /\ UNCHANGED <<liveVars, wavVars>>

\* TTSMode.tsx:408 - a language button
setSelectedLang(lang) ==
  /\ lang # selectedLang
  /\ selectedLang' = lang
  /\ UNCHANGED <<text, isOfflineMode, offlinePacks, isFloating, loading,
                 error, audioUrl, isPlaying, apiKey, req, calls, stopped>>
  /\ UNCHANGED <<liveVars, wavVars>>

\* TTSMode.tsx:308 - the offline switch
setIsOfflineMode ==
  /\ isOfflineMode' = ~isOfflineMode
  /\ UNCHANGED <<text, selectedLang, offlinePacks, isFloating, loading,
                 error, audioUrl, isPlaying, apiKey, req, calls, stopped>>
  /\ UNCHANGED <<liveVars, wavVars>>

\* TTSMode.tsx:189-194, 490 - the Download button of a pack not installed
handleDownloadPack(lang) ==
  /\ ~offlinePacks[lang]
  /\ offlinePacks' = [offlinePacks EXCEPT ![lang] = TRUE]
  /\ UNCHANGED <<text, selectedLang, isOfflineMode, isFloating, loading,
                 error, audioUrl, isPlaying, apiKey, req, calls, stopped>>
  /\ UNCHANGED <<liveVars, wavVars>>

\* TTSMode.tsx:226, 285 - the mini player is entered or left
setIsFloating ==
  /\ isFloating' = ~isFloating
  /\ UNCHANGED <<text, selectedLang, isOfflineMode, offlinePacks, loading,
                 error, audioUrl, isPlaying, apiKey, req, calls, stopped>>
  /\ UNCHANGED <<liveVars, wavVars>>

\* the text-to-speech screen: its controls, its requests and their callbacks
Render ==
  \/ handleGenerate
  \/ \E r \in RequestIds : utteranceOnend(r)
  \/ \E r \in RequestIds : utteranceOnerror(r)
  \/ \E r \in RequestIds, hasAudio \in BOOLEAN : generateContentResolves(r, hasAudio)
  \/ \E r \in RequestIds : generateContentRejects(r)
  \/ \E r \in RequestIds, decoded \in BOOLEAN : handleOnlineGenerateResume(r, decoded)
  \/ stopPlayback
  \/ \E t \in Texts : setText(t)
  \/ \E lang \in Langs : setSelectedLang(lang)
  \/ setIsOfflineMode
  \/ \E lang \in Langs : handleDownloadPack(lang)
  \/ setIsFloating

\* ---------------------------------------------------------- bufferToWav
\* abuffer.getChannelData(i)[p]
getChannelData(buf, i, p) ==
  SampleNums[((buf.seed + p + 3 * i) % Len(SampleNums)) + 1]

\* DataView.setUint16 / setUint32, little-endian: the low bytes of data are
\* stored at byte offsets at..at+width-1
SetUint(v, at, width, data) ==
  [j \in 1..Len(v) |->
     IF j - 1 >= at /\ j - 1 < at + width
       THEN (data \div (256 ^ (j - 1 - at))) % 256
       ELSE v[j]]

\* DataView.setInt16, little-endian: data is stored in two's complement
SetInt16(v, at, data) == SetUint(v, at, 2, (data + 65536) % 65536)

\* TTSMode.tsx:512 - length = abuffer.length * numOfChan * 2 + 44
WavLength(n, numOfChan) == n * numOfChan * 2 + 44

\* a byte rate that leaves the channels out
ByteRateMono(rate, numOfChan) == rate * 2

\* TTSMode.tsx:529 - sampleRate * 2 * numOfChan
ByteRate(rate, numOfChan) == rate * 2 * numOfChan

\* TTSMode.tsx:530 - numOfChan * 2
BlockAlign(numOfChan) == numOfChan * 2

\* TTSMode.tsx:522-535 - the fields written before the data chunk length, as
\* <<width, value>>: "RIFF", length - 8, "WAVE", "fmt ", 16, PCM, the
\* channels, the sample rate, the byte rate, the block align, 16 bits, "data"
HeaderFields(length, numOfChan, rate) ==
  << <<4, 1179011410>>, <<4, length - 8>>, <<4, 1163280727>>,
     <<4, 544501094>>, <<4, 16>>, <<2, 1>>, <<2, numOfChan>>, <<4, rate>>,
     <<4, ByteRate(rate, numOfChan)>>, <<2, BlockAlign(numOfChan)>>,
     <<2, 16>>, <<4, 1635017060>> >>

\* TTSMode.tsx:551-559 - setUint16 / setUint32 called for each field in turn:
\* the field is written at pos and pos is advanced by its width
RECURSIVE WriteFields(_, _, _)
WriteFields(v, p, fields) ==
  IF fields = <<>>
    THEN [view |-> v, pos |-> p]
    ELSE WriteFields(SetUint(v, p, Head(fields)[1], Head(fields)[2]),
                     p + Head(fields)[1], Tail(fields))

\* TTSMode.tsx:541 - Math.max(-1, Math.min(1, sample))
Clamp(k) == IF k < -SampleDen THEN -SampleDen
            ELSE IF k > SampleDen THEN SampleDen ELSE k

\* x | 0 for the quotient num / SampleDen: truncation towards zero
Truncate(num) ==
  IF num >= 0 THEN num \div SampleDen ELSE -((-num) \div SampleDen)

\* TTSMode.tsx:542 - (0.5 + sample < 0 ? sample * 32768 : sample * 32767)|0
Quantize(k) ==
  Truncate(IF SampleDen + 2 * k < 0 THEN k * 32768 ELSE k * 32767)

\* TTSMode.tsx:540-545 - the for loop over the channels of one frame
RECURSIVE WriteFrame(_, _, _, _, _)
WriteFrame(v, off, buf, p, i) ==
  IF i >= buf.numberOfChannels
    THEN [view |-> v, offset |-> off]
    ELSE WriteFrame(SetInt16(v, 44 + off,
                             Quantize(Clamp(getChannelData(buf, i, p)))),
                    off + 2, buf, p, i + 1)

\* TTSMode.tsx:510-519 - bufferToWav is called: the output buffer is
\* allocated, filled with zeros
bufferToWav ==
  /\ wavPc = "idle"
  /\ view' = [j \in 1..WavLength(abuffer.length, abuffer.numberOfChannels) |-> 0]
  /\ pos' = 0 /\ offset' = 0
  /\ wavPc' = "header"
  /\ UNCHANGED <<abuffer, sampleRate>>
  /\ UNCHANGED <<liveVars, ttsVars>>

\* TTSMode.tsx:521-536 - the header
writeHeader ==
  /\ wavPc = "header"
  /\ LET length == Len(view)
         h == WriteFields(view, pos,
                HeaderFields(length, abuffer.numberOfChannels, sampleRate))
     IN /\ view' = SetUint(h.view, h.pos, 4, length - h.pos - 4)
        /\ pos' = h.pos + 4
  /\ wavPc' = "data"
  /\ UNCHANGED <<abuffer, sampleRate, offset>>
  /\ UNCHANGED <<liveVars, ttsVars>>

\* TTSMode.tsx:539-547 - one turn of the while loop
writeData ==
  /\ wavPc = "data"
  /\ pos < abuffer.length
  /\ LET f == WriteFrame(view, offset, abuffer, pos, 0)
     IN /\ view' = f.view
        /\ offset' = f.offset
  /\ pos' = pos + 1
  /\ UNCHANGED <<abuffer, sampleRate, wavPc>>
  /\ UNCHANGED <<liveVars, ttsVars>>

\* TTSMode.tsx:539, 549 - the loop is left and the blob returned
bufferToWavReturn ==
  /\ wavPc = "data"
  /\ ~(pos < abuffer.length)
  /\ wavPc' = "returned"
  /\ UNCHANGED <<abuffer, sampleRate, view, pos, offset>>
  /\ UNCHANGED <<liveVars, ttsVars>>

\* one bufferToWav call
Wav ==
  \/ bufferToWav
  \/ writeHeader
  \/ writeData
  \/ bufferToWavReturn

\* the session's start, its connection and its teardown
Lifecycle ==
  \/ startSession
  \/ MediaGranted
  \/ MediaDenied
  \/ onopen
  \/ ConnectResolved
  \/ ConnectRejected
  \/ ClickStop
  \/ onclose
  \/ onerror

\* the capture callback
Capture ==
  \E loud \in BOOLEAN : onaudioprocess(loud)

\* the inbound messages, their decodes and the output clock
Playback ==
  \/ \E dur \in Durations, intr \in BOOLEAN : onmessageAudio(dur, intr)
  \/ \E c \in ChunkIds : onmessageResume(c)
  \/ \E c \in ChunkIds : onmessageDecodeFails(c)
  \/ onmessageInterrupted
  \/ \E c \in ChunkIds : ended(c)
  \/ Tick

Next == Lifecycle \/ Capture \/ Playback \/ Render \/ Wav

Spec == Init /\ [][Next]_vars

\* the session with its capture side alone: no inbound message arrives
NextCapture == Lifecycle \/ Capture

SpecCapture == Init /\ [][NextCapture]_vars

\* the session with its playback side alone: the microphone yields no frame
NextPlayback == Lifecycle \/ Playback

SpecPlayback == Init /\ [][NextPlayback]_vars

\* the text-to-speech screen alone
SpecRender == Init /\ [][Render]_vars

\* bufferToWav is given a buffer and a sample rate
InitWav ==
  /\ LiveInit /\ TtsInit
  /\ abuffer \in [length : 0..MaxSamples, numberOfChannels : 1..MaxChannels,
                  seed : 0..(Len(SampleNums) - 1)]
  /\ sampleRate \in SampleRates
  /\ view = <<>>
  /\ pos = 0 /\ offset = 0
  /\ wavPc = "idle"

\* one bufferToWav call alone, for every buffer and rate of InitWav
SpecWav == InitWav /\ [][Wav]_vars

\* ------------------------------------------------------------------ claims
Started(c) == chunks[c].st = "started"

InterruptionRuns ==
  \/ outputAudioContextRef # 0 /\ onmessageInterrupted
  \/ \E c \in ChunkIds : chunks[c].intr /\ onmessageResume(c)

\* C2: after the interruption branch of onmessage has run, the active source
\* set is empty and nextStartTime is 0, whatever was scheduled or playing and
\* whatever the clock shows.
C2_InterruptClears ==
  [][InterruptionRuns => (sourcesRef' = {} /\ nextStartTimeRef' = 0)]_vars

\* an interruption has swept two units while the clock was past 0
C2_Witness ==
  /\ chunks[1].st = "stopped" /\ chunks[2].st = "stopped"
  /\ outputCtxState = "running" /\ clock > 0
  /\ sourcesRef = {} /\ nextStartTimeRef = 0

\* C3: units are started in the arrival order of their chunks: a chunk that
\* arrived earlier has an earlier start time than a chunk that arrived later.
C3_ArrivalOrder ==
  \A b, c \in ChunkIds :
    (b < c /\ Started(b) /\ Started(c)) => chunks[b].start < chunks[c].start

\* C4: each time a unit is started, the start time is at or after the output
\* clock's current time.
C4_StartNotBehindClock ==
  [][\A c \in ChunkIds :
       (chunks[c].st = "decoding" /\ Started(c)') => chunks'[c].start >= clock']_vars

\* C5: once an interruption has run, no unit built from a chunk that arrived
\* before it is started and added to the active source set.
C5_BargeInDiscards ==
  [][\A c \in ChunkIds :
       (chunks[c].st = "decoding" /\ chunks[c].stale)
         => ~(Started(c)' /\ c \in sourcesRef')]_vars

\* the frames 1..n, in capture order
FramesUpTo(n) == [i \in 1..n |-> i]

\* C6: no chunk is sent while the session handle is unresolved; once it is
\* resolved every captured chunk has been sent exactly once, in capture order,
\* none waits any longer; a failed connection sends nothing.
C6_DeferredSends ==
  /\ ~resolved => (sent = <<>> /\ thenQueue = FramesUpTo(nFrames))
  /\ resolved => (thenQueue = <<>> /\ sent = FramesUpTo(nFrames))
  /\ pc = "failed" => sent = <<>>

\* two chunks waited for the handle and a third was captured after it
C6_Witness ==
  /\ resolved /\ deferred = 2
  /\ sent = <<1, 2, 3>>

\* stopAll has run
TornDown == outputCtxState = "closed"

\* C7: after stopAll has run, every later state has an empty active source
\* set, a null session reference and a null microphone stream.
C7_TeardownFinal ==
  TornDown => (sourcesRef = {} /\ sessionRef = 0 /\ streamRef = 0)

\* the state stopAll leaves
Released ==
  /\ streamRef = 0 /\ processorRef = 0 /\ sourceRef = 0
  /\ inputAudioContextRef = 0 /\ outputAudioContextRef = 0
  /\ sessionRef = 0 /\ sourcesRef = {}
  /\ ~connected /\ ~speaking /\ ~aiSpeaking

\* stopAll runs in this step
StopAllRuns == ClickStop \/ onclose \/ onerror

\* C8: stopAll leaves the released state, a stopAll run in that state changes
\* nothing, and no unit, track or context is ever stopped or closed twice.
C8_TeardownIdempotent ==
  /\ [](~twice)
  /\ [][StopAllRuns =>
          /\ Released'
          /\ Released => UNCHANGED <<progVars, chunks, resVars>>]_vars

\* a second stopAll has run after the first one stopped a unit
C8_Witness ==
  /\ teardowns = 2
  /\ \E c \in ChunkIds : chunks[c].st = "stopped"
  /\ Released

\* C9: after a failed session start the input and output audio contexts, the
\* microphone stream and the session reference are all released.
C9_FailedStartReleases ==
  pc = "failed" =>
    /\ inputAudioContextRef = 0 /\ outputAudioContextRef = 0
    /\ streamRef = 0 /\ sessionRef = 0

\* C10: the 'ended' listener of a unit that an interruption or teardown sweep
\* has already removed does not run its removal and finished-speaking logic
\* again: it changes neither the set nor the speaking indicator.
C10_RemovedOnce ==
  [][\A c \in ChunkIds :
       (chunks[c].st = "stopped" /\ chunks'[c].st = "done")
         => UNCHANGED <<sourcesRef, aiSpeaking>>]_vars

\* the decode of chunk c fails in this step
DecodeFailsStep(c) == chunks[c].st = "decoding" /\ chunks'[c].st = "failed"

C20_SpeakingWhileActive ==
  sourcesRef # {} => aiSpeaking

\* C12: after stopPlayback has run, the render state is Idle (not loading, not
\* playing), and it stays Idle until the next request is started, whatever
\* callback of a pending request arrives.
C12_StopForcesIdle ==
  stopped => ~loading /\ ~isPlaying

\* request r is being rendered: its remote call or its decode is pending, or
\* its utterance is queued or spoken
InFlight(r) == req[r] \in {"remote", "decode", "speaking"}

\* handleGenerate is called in this step with text that is not blank
GenerateRuns == calls' # calls /\ Trim(text) # <<>>

\* C13: a handleGenerate call with non-blank text cancels the utterance of
\* the earlier request before the synthesis of the new one is started, so
\* that at most one request is in flight and at most one utterance is
\* audible at any time.
C13_OneRenderInFlight ==
  /\ [][GenerateRuns =>
          \A r \in RequestIds : req[r] = "speaking" => req'[r] = "cancelled"]_vars
  /\ [](Cardinality({r \in RequestIds : InFlight(r)}) <= 1)
  /\ [](Cardinality({r \in RequestIds : req[r] = "speaking"}) <= 1)

\* handleGenerate is called in this step, offline, for a language whose pack
\* is not downloaded
PackFailRuns == GenerateRuns /\ isOfflineMode /\ ~offlinePacks[selectedLang]

\* C14: an offline handleGenerate call for a language whose pack is not
\* downloaded ends with the pack error, and neither speaks an utterance nor
\* calls the remote endpoint.
C14_PackNotAvailable ==
  [][PackFailRuns =>
       /\ error' = "download the language pack"
       /\ \A r \in RequestIds : InFlight(r)' => req'[r] = req[r]]_vars

\* the pack error is shown for the selected language, offline
C14_Witness ==
  /\ error = "download the language pack"
  /\ isOfflineMode /\ ~offlinePacks[selectedLang]
  /\ \E r \in RequestIds : req[r] = "settled"

\* C15: a handleGenerate call that fails with the pack error leaves the
\* artifact rendered before (audioUrl), the playing flag and the utterance in
\* progress as they were before the call.
C15_PackFailureFrame ==
  [][PackFailRuns =>
       /\ audioUrl' = audioUrl
       /\ isPlaying' = isPlaying
       /\ \A r \in RequestIds : req[r] = "speaking" => req'[r] = "speaking"]_vars

\* C16: a handleGenerate call with empty or whitespace-only text changes
\* nothing: loading, playing, error and audioUrl are as before, no utterance
\* is cancelled, and no request reaches the remote endpoint or the local
\* synthesizer.
C16_BlankIsNoOp ==
  [][calls' # calls /\ Trim(text) = <<>> =>
       UNCHANGED <<loading, isPlaying, error, audioUrl, req, stopped>>]_vars

\* handleGenerate has been called with whitespace-only text while the remote
\* call of the first request was pending
C16_Witness ==
  /\ text # <<>> /\ Trim(text) = <<>>
  /\ calls = 2
  /\ req[1] = "remote" /\ req[2] = "none"
  /\ loading

\* DataView.getUint16 / getUint32, little-endian
ReadUint(v, at, width) ==
  IF width = 2 THEN v[at + 1] + 256 * v[at + 2]
  ELSE v[at + 1] + 256 * v[at + 2] + 65536 * v[at + 3] + 16777216 * v[at + 4]

\* DataView.getInt16, little-endian
ReadInt16(v, at) ==
  LET u == ReadUint(v, at, 2) IN IF u >= 32768 THEN u - 65536 ELSE u

\* C17: in the output of bufferToWav the data section (from byte 44) holds,
\* at sample position p of every channel, the 16-bit quantization of input
\* sample p, for every p below the length of the buffer.
C17_WavRoundTrip ==
  wavPc = "returned" =>
    \A p \in 0..(abuffer.length - 1), i \in 0..(abuffer.numberOfChannels - 1) :
      ReadInt16(view, 44 + 2 * (p * abuffer.numberOfChannels + i))
        = Quantize(Clamp(getChannelData(abuffer, i, p)))

\* C18: the output of bufferToWav is 44 + numSamples * channels * 2 bytes
\* long, its RIFF size field is that length minus 8, its byte-rate field is
\* sampleRate * channels * 2, its block-align field is channels * 2 and its
\* data chunk length field is numSamples * channels * 2.
C18_WavHeader ==
  wavPc = "returned" =>
    LET n == abuffer.length
        ch == abuffer.numberOfChannels
    IN /\ Len(view) = 44 + n * ch * 2
       /\ ReadUint(view, 4, 4) = 44 + n * ch * 2 - 8
       /\ ReadUint(view, 28, 4) = sampleRate * ch * 2
       /\ ReadUint(view, 32, 2) = ch * 2
       /\ ReadUint(view, 40, 4) = n * ch * 2

\* a stereo buffer of more than 44 samples at 24000 Hz has been written
C18_Witness ==
  /\ wavPc = "returned"
  /\ abuffer.length = 45 /\ abuffer.numberOfChannels = 2
  /\ sampleRate = 24000
  /\ Len(view) = 224
  /\ ReadUint(view, 28, 4) = 96000

\* the quantization the claim describes: a negative sample is scaled by
\* 32768 and any other by 32767, after the clamp and before the truncation
SignQuantize(k) ==
  Truncate(IF Clamp(k) < 0 THEN Clamp(k) * 32768 ELSE Clamp(k) * 32767)

\* C19: every sample the writer stores is the input sample clamped to
\* [-1, 1], scaled by 32768 when negative and by 32767 otherwise, and
\* truncated; every value stored lies in -32768..32767.
C19_Quantization ==
  [][wavPc = "data" /\ pos' = pos + 1 =>
       \A i \in 0..(abuffer.numberOfChannels - 1) :
         LET written == ReadInt16(view', 44 + offset + 2 * i)
         IN /\ written = SignQuantize(getChannelData(abuffer, i, pos))
            /\ written \in -32768..32767]_vars

\* a callback of request r runs in this step: its utterance's 'end' or
\* 'error' event, or the continuation of its remote call or of its decode
CallbackRuns(r) ==
  /\ req[r] \in {"remote", "decode", "speaking", "cancelled"}
  /\ req'[r] \in {"decode", "settled"}
  /\ req'[r] # req[r]

\* C21: when a later request has been started while request r was pending,
\* the late outcome of r (completion, error or cancellation callback, late
\* remote response) does not clear loading or playing, set the error or
\* replace the audio artifact of the later request.
C21_SupersededIsInert ==
  [][\A r \in RequestIds :
       (CallbackRuns(r) /\ \E q \in RequestIds : q > r /\ InFlight(q)) =>
         UNCHANGED <<loading, isPlaying, error, audioUrl>>]_vars

====
